---- MODULE Spec2Model ----
(***************************************************************************)
(* Model of TwitterMySQLAPI (src/src/twitter_api.py): a data-access layer  *)
(* over a relational store holding TWEET and FOLLOWS.  The store is        *)
(* modelled by its committed tables, the auto-increment counter of TWEET,  *)
(* its clock, and the uncommitted rows of the connection in use.           *)
(***************************************************************************)
EXTENDS Integers, Sequences, FiniteSets, TLC

VARIABLES
    FOLLOWS,    \* committed rows <<follower_id, followee_id>>, in insertion order
    TWEET,      \* committed rows [tweet_id, user_id, tweet_ts, tweet_text], in insertion order
    autoInc,    \* next AUTO_INCREMENT value of TWEET.tweet_id
    now,        \* the store's clock (second resolution)
    openConns,  \* connections the API instance holds open
    txn,        \* uncommitted FOLLOWS rows of the open connection
    pc,         \* "idle" or "loading" (inside load_follows_csv's loop)
    load,       \* the frame of the running load_follows_csv call
    result,     \* outcome of the last API call ("running" inside a load)
    seen,       \* FOLLOWS rows last read by another session
    nposts      \* number of post_tweet calls made so far

vars == <<FOLLOWS, TWEET, autoInc, now, openConns, txn, pc, load, result, seen, nposts>>

----------------------------------------------------------------------------
(* Bounds of the model.                                                    *)

\* Lines per follows file in the specification of the bulk load.
MaxLines == 2

\* post_tweet calls per run.
MaxPosts == 2

\* Seconds the store's clock advances per run.
MaxClock == 1

\* Tweets already in the store when a run starts with a backlog.
BacklogSize == 9

TimelineUsers == {0, 1}

Authors == {1, 2}

Texts == {"a", "b"}

----------------------------------------------------------------------------
(* Sequence helpers.                                                       *)

Range(s) == {s[i] : i \in 1..Len(s)}

Min(a, b) == IF a <= b THEN a ELSE b

Reverse(s) == [i \in 1..Len(s) |-> s[Len(s) + 1 - i]]

----------------------------------------------------------------------------
(* Input lines of a follows file.  A line is a sequence of characters, each *)
(* a string.  A character that has no escape in a string is written by     *)
(* name: "VT" is U+000B, "FS" "GS" "RS" "US" are U+001C..U+001F, "NEL" is   *)
(* U+0085, "NBSP" is U+00A0, "Zs" is any other Unicode space (U+1680,      *)
(* U+2000..U+200A, U+2028, U+2029, U+202F, U+205F, U+3000), and "Nd0" ..   *)
(* "Nd9" is any decimal digit outside ASCII with that value (U+0663 is     *)
(* "Nd3").                                                                 *)

DigitChars == <<"0", "1", "2", "3", "4", "5", "6", "7", "8", "9">>

OtherDigitChars ==
    <<"Nd0", "Nd1", "Nd2", "Nd3", "Nd4", "Nd5", "Nd6", "Nd7", "Nd8", "Nd9">>

\* The characters str.isspace() holds of: str.strip() drops them at both ends.
Whitespace ==
    {" ", "\t", "\n", "\r", "\f", "VT", "FS", "GS", "RS", "US", "NEL", "NBSP", "Zs"}

\* The characters int() drops at both ends: the same but for the separators
\* U+001C..U+001F, which it takes as part of the literal.
IntWhitespace == Whitespace \ {"FS", "GS", "RS", "US"}

\* The most digits int() converts from a string (the interpreter's default
\* limit from CPython 3.11 on); leading zeros count, sign and underscores do not.
IntMaxStrDigits == 4300

IsDigit(c) == c \in Range(DigitChars) \cup Range(OtherDigitChars)

DigitVal(c) ==
    (CHOOSE d \in 1..Len(DigitChars) : DigitChars[d] = c \/ OtherDigitChars[d] = c) - 1

\* Lines a file may hold, with the newline they are read with: valid edges
\* (one padded, signed and with an underscore, spelling an edge another line
\* spells too; one with a negative id), a blank line, and malformed lines
\* (one with a separator character next to an id, which int() rejects).
SampleLines ==
    { <<"0", ",", "1", "\n">>,
      <<"FS", "0", "FS", ",", "1", "\n">>,
      <<"\t", "+", "0", ",", " ", "0", "_", "1", "\r", "\n">>,
      <<"-", "2", ",", "1", "\n">>,
      <<" ", "\n">>,
      <<"2", "1", "\n">>,
      <<"2", ",", "x", "\n">> }

RECURSIVE SeqsUpTo(_, _)
SeqsUpTo(S, n) ==
    IF n = 0 THEN {<<>>}
    ELSE LET shorter == SeqsUpTo(S, n - 1)
         IN  shorter \cup {Append(f, x) : f \in shorter, x \in S}

Files == SeqsUpTo(SampleLines, MaxLines)

\* Lines of the one-line files loaded in the specification of the whole API:
\* user 0 comes to follow the authors 1 and 2; one line is malformed.
EdgeLines ==
    { <<"0", ",", "1", "\n">>,
      <<"0", ",", "2", "\n">>,
      <<"2", ",", "x", "\n">> }

EdgeFiles == {<<>>} \cup {<<line>> : line \in EdgeLines}

\* The characters of ws removed from the front of s.
RECURSIVE LStrip(_, _)
LStrip(s, ws) ==
    IF s # <<>> /\ Head(s) \in ws THEN LStrip(Tail(s), ws) ELSE s

\* str.strip(): leading and trailing whitespace removed.
Strip(s) == Reverse(LStrip(Reverse(LStrip(s, Whitespace)), Whitespace))

\* The whitespace int() skips before and after the literal.
IntStrip(s) == Reverse(LStrip(Reverse(LStrip(s, IntWhitespace)), IntWhitespace))

\* str.split(",", 1): cut at the first comma only; one part when there is none.
SplitFirstComma(s) ==
    LET commas == {i \in 1..Len(s) : s[i] = ","}
    IN  IF commas = {} THEN <<s>>
        ELSE LET i == CHOOSE j \in commas : \A k \in commas : j <= k
             IN  <<SubSeq(s, 1, i - 1), SubSeq(s, i + 1, Len(s))>>

RECURSIVE DecimalValue(_)
DecimalValue(s) ==
    IF s = <<>> THEN 0
    ELSE DecimalValue(SubSeq(s, 1, Len(s) - 1)) * 10 + DigitVal(s[Len(s)])

\* The digits of an int() literal: one or more decimal digits, with single
\* underscores allowed between two digits.
DigitsWellFormed(body) ==
    /\ body # <<>>
    /\ \A i \in 1..Len(body) :
          \/ IsDigit(body[i])
          \/ /\ body[i] = "_"
             /\ 1 < i /\ i < Len(body)
             /\ IsDigit(body[i - 1]) /\ IsDigit(body[i + 1])

\* int(str): surrounding whitespace dropped, an optional sign, then the
\* digits, no more of them than the limit; anything else raises ValueError.
PyInt(s) ==
    LET t == IntStrip(s)
        signed == t # <<>> /\ t[1] \in {"+", "-"}
        body == IF signed THEN Tail(t) ELSE t
        digits == SelectSeq(body, IsDigit)
        magnitude == DecimalValue(digits)
    IN  IF DigitsWellFormed(body) /\ Len(digits) <= IntMaxStrDigits
        THEN [ok |-> TRUE,
              value |-> IF signed /\ t[1] = "-" THEN 0 - magnitude ELSE magnitude]
        ELSE [ok |-> FALSE]

\* One iteration of the loop body up to the INSERT: what the line yields.
ParseLine(line) ==
    LET stripped == Strip(line)
    IN  IF stripped = <<>> THEN [kind |-> "blank"]
        ELSE LET parts == SplitFirstComma(stripped)
             IN  IF Len(parts) # 2 THEN [kind |-> "error"]
                 ELSE LET a == PyInt(parts[1])
                          b == PyInt(parts[2])
                      IN  IF a.ok /\ b.ok
                          THEN [kind |-> "pair", row |-> <<a.value, b.value>>]
                          ELSE [kind |-> "error"]

\* next(f, None) when has_header: the first line, if any, is dropped.
SkipHeader(file, has_header) ==
    IF has_header /\ file # <<>> THEN Tail(file) ELSE file

----------------------------------------------------------------------------
(* The store.                                                              *)

\* UNIQUE(follower_id, followee_id) on FOLLOWS.
DuplicateKey(rows, row) == row \in Range(rows)

InsertPlain(committed, pending, row) ==
    [pending |-> Append(pending, row), rowcount |-> 1]

\* INSERT IGNORE INTO FOLLOWS: a row that collides with the unique key (rows of
\* the same transaction included) is skipped and counts 0 affected rows.
InsertIgnore(committed, pending, row) ==
    IF DuplicateKey(committed \o pending, row)
    THEN [pending |-> pending, rowcount |-> 0]
    ELSE [pending |-> Append(pending, row), rowcount |-> 1]

CountEveryLine(inserted, rowcount) == inserted + 1

\* inserted += cur.rowcount
CountInserted(inserted, rowcount) == inserted + rowcount

\* conn.commit(): the transaction's rows become committed.
Commit(committed, pending) == committed \o pending

CloseKeepsPending(committed, pending) == committed \o pending

\* conn.close() without a commit: autocommit is off, so the store rolls the
\* connection's transaction back.
CloseUncommitted(committed, pending) == committed

ConnLeak(n) == n

\* finally: conn.close()
ConnClose(n) == n - 1

\* _connect(): a new connection per call.
Connect(n) == n + 1

----------------------------------------------------------------------------
(* Queries.                                                                *)

None == [some |-> FALSE]

Some(v) == [some |-> TRUE, val |-> v]

TimelineLimit == 10

JoinOnFollower(f, t) == t.user_id = f[1]

\* JOIN TWEET t ON t.user_id = f.followee_id
JoinOn(f, t) == t.user_id = f[2]

\* WHERE f.follower_id = %s
WhereFollower(f, user_id) == f[1] = user_id

\* The joined rows, listed FOLLOWS row by FOLLOWS row; only the columns of t
\* are selected.  The order of this list is not an order of the result.
RECURSIVE JoinRows(_, _, _)
JoinRows(follows, tweets, user_id) ==
    IF follows = <<>> THEN <<>>
    ELSE LET f == Head(follows)
             matched == IF WhereFollower(f, user_id)
                        THEN SelectSeq(tweets, LAMBDA t : JoinOn(f, t))
                        ELSE <<>>
         IN  matched \o JoinRows(Tail(follows), tweets, user_id)

OrderedAsc(a, b) == a.tweet_ts <= b.tweet_ts

\* ORDER BY t.tweet_ts DESC: a may stay before b.
OrderedDesc(a, b) == a.tweet_ts >= b.tweet_ts

\* The query names no key beyond tweet_ts, so the store may return rows with
\* equal tweet_ts in any order: every arrangement of the rows (by position in
\* `rows`) in which each row may stand before all that follow it.
RECURSIVE Arrangements(_, _)
Arrangements(rows, left) ==
    IF left = {} THEN {<<>>}
    ELSE UNION { {<<rows[i]>> \o rest : rest \in Arrangements(rows, left \ {i})} :
                 i \in {k \in left : \A j \in left : OrderedDesc(rows[k], rows[j])} }

OrderByOutcomes(rows) == Arrangements(rows, 1..Len(rows))

LimitOneLess(rows, n) == SubSeq(rows, 1, Min(n - 1, Len(rows)))

\* LIMIT n
Limit(rows, n) == SubSeq(rows, 1, Min(n, Len(rows)))

\* The SELECT of get_home_timeline and [Tweet(*row) for row in rows]: every
\* list the call may return.
HomeTimelineOutcomes(follows, tweets, user_id) ==
    {Limit(ordered, TimelineLimit) :
        ordered \in OrderByOutcomes(JoinRows(follows, tweets, user_id))}

SelectFolloweeId(f) == <<f[2]>>

\* SELECT follower_id FROM FOLLOWS
SelectFollowerId(f) == <<f[1]>>

\* ORDER BY RAND() LIMIT 1 and fetchone(): the rows the call may fetch; <<>>
\* stands for no row.
RandomRowOutcomes(follows) ==
    IF follows = <<>> THEN {<<>>}
    ELSE {SelectFollowerId(follows[i]) : i \in 1..Len(follows)}

RowValueTruthy(row) == IF row # <<>> /\ row[1] # 0 THEN Some(row[1]) ELSE None

\* return int(row[0]) if row else None
RandomFollowerReturn(row) == IF row # <<>> THEN Some(row[1]) ELSE None

\* Every value get_random_follower_id can return on this table.
RandomFollowerOutcomes(follows) ==
    {RandomFollowerReturn(row) : row \in RandomRowOutcomes(follows)}

\* Range-sample-and-seek: draw d in [min, max] of the follower_ids, return the
\* smallest existing follower_id >= d.
RangeSampleSeekOutcomes(follows) ==
    LET ids == {follows[i][1] : i \in 1..Len(follows)}
    IN  IF ids = {} THEN {None}
        ELSE LET lo == CHOOSE a \in ids : \A b \in ids : a <= b
                 hi == CHOOSE a \in ids : \A b \in ids : a >= b
                 Seek(d) == CHOOSE a \in ids : a >= d /\ \A b \in ids : b >= d => a <= b
             IN  {Some(Seek(d)) : d \in lo..hi}

ReturnRowCount(lastrowid, rowcount) == rowcount

\* return cur.lastrowid
PostTweetReturn(lastrowid, rowcount) == lastrowid

----------------------------------------------------------------------------
(* State after construction: __init__ only stores the connection           *)
(* arguments; the store is empty and no connection is open.                *)

NoLoad == [file |-> <<>>, has_header |-> FALSE, rest |-> <<>>, inserted |-> 0,
           before |-> <<>>, repeat |-> FALSE]

\* BacklogSize tweets posted by author 1 before the clock's second 0: the
\* first two within one second, the others one per second after it.
Backlog ==
    [i \in 1..BacklogSize |->
        [tweet_id |-> i, user_id |-> 1,
         tweet_ts |-> IF i = 1 THEN 0 - BacklogSize ELSE i - BacklogSize - 2,
         tweet_text |-> "a"]]

NoResult == [op |-> "none", status |-> "none"]

InitStore(tweets) ==
    /\ FOLLOWS = <<>>
    /\ TWEET = tweets
    /\ autoInc = Len(TWEET) + 1
    /\ now = 0
    /\ openConns = 0
    /\ txn = <<>>
    /\ pc = "idle"
    /\ load = NoLoad
    /\ result = NoResult
    /\ seen = <<>>
    /\ nposts = 0

Init == InitStore(<<>>) \/ InitStore(Backlog)

InitLoad == InitStore(<<>>)

----------------------------------------------------------------------------
(* post_tweet                                                              *)

PostOutcomes == {"ok", "connect_error", "insert_error", "commit_error"}

\* burn: whether a failed INSERT still consumed an AUTO_INCREMENT value.
PostTweet(user_id, tweet_text, outcome, burn) ==
    /\ pc = "idle"
    /\ nposts < MaxPosts
    /\ outcome = "insert_error" \/ ~burn
    /\ nposts' = nposts + 1
    /\ LET row == [tweet_id |-> autoInc, user_id |-> user_id,
                   tweet_ts |-> now, tweet_text |-> tweet_text]
       IN  /\ TWEET' = IF outcome = "ok" THEN Append(TWEET, row) ELSE TWEET
           /\ autoInc' = IF outcome \in {"ok", "commit_error"} \/ burn
                         THEN autoInc + 1 ELSE autoInc
           /\ openConns' = IF outcome = "connect_error" THEN openConns
                           ELSE ConnClose(Connect(openConns))
           /\ result' = IF outcome = "ok"
                        THEN [op |-> "post_tweet", status |-> "returned",
                              value |-> PostTweetReturn(row.tweet_id, 1),
                              user_id |-> user_id, tweet_text |-> tweet_text]
                        ELSE [op |-> "post_tweet", status |-> "raised"]
    /\ UNCHANGED <<FOLLOWS, now, txn, pc, load, seen>>

----------------------------------------------------------------------------
(* get_home_timeline                                                       *)

ReadOutcomes == {"ok", "connect_error", "query_error"}

GetHomeTimeline(user_id, outcome) ==
    /\ pc = "idle"
    /\ openConns' = IF outcome = "connect_error" THEN openConns
                    ELSE ConnClose(Connect(openConns))
    /\ IF outcome = "ok"
       THEN \E rows \in HomeTimelineOutcomes(FOLLOWS, TWEET, user_id) :
               result' = [op |-> "get_home_timeline", status |-> "returned",
                          user_id |-> user_id, value |-> rows]
       ELSE result' = [op |-> "get_home_timeline", status |-> "raised"]
    /\ UNCHANGED <<FOLLOWS, TWEET, autoInc, now, txn, pc, load, seen, nposts>>

----------------------------------------------------------------------------
(* get_random_follower_id                                                  *)

GetRandomFollowerId(outcome) ==
    /\ pc = "idle"
    /\ openConns' = IF outcome = "connect_error" THEN openConns
                    ELSE ConnClose(Connect(openConns))
    /\ \E row \in RandomRowOutcomes(FOLLOWS) :
          result' = IF outcome = "ok"
                    THEN [op |-> "get_random_follower_id", status |-> "returned",
                          value |-> RandomFollowerReturn(row)]
                    ELSE [op |-> "get_random_follower_id", status |-> "raised"]
    /\ UNCHANGED <<FOLLOWS, TWEET, autoInc, now, txn, pc, load, seen, nposts>>

----------------------------------------------------------------------------
(* load_follows_csv, one step per statement group: the call up to the      *)
(* loop, one loop iteration, and the commit with the return.               *)

LoadBeginOutcomes == {"ok", "connect_error", "open_error"}

\* discarded: the number of rows the call had inserted when it raised.
LoadRaised(before, discarded) ==
    [op |-> "load_follows_csv", status |-> "raised", before |-> before,
     discarded |-> discarded]

LoadRunning == [op |-> "load_follows_csv", status |-> "running"]

\* Whether the last call that finished was a successful load of the same file
\* with the same has_header.
IsRepeat(file, has_header) ==
    /\ result.op = "load_follows_csv"
    /\ result.status = "returned"
    /\ result.args = <<file, has_header>>

\* inserted = 0; conn = self._connect(); cur = conn.cursor(); open(csv_path);
\* the header skip.
LoadBegin(file, has_header, outcome) ==
    /\ pc = "idle"
    /\ IF outcome = "ok"
       THEN /\ openConns' = Connect(openConns)
            /\ pc' = "loading"
            /\ load' = [file |-> file, has_header |-> has_header,
                        rest |-> SkipHeader(file, has_header),
                        inserted |-> 0, before |-> FOLLOWS,
                        repeat |-> IsRepeat(file, has_header)]
            /\ result' = LoadRunning
       ELSE /\ openConns' = IF outcome = "connect_error" THEN openConns
                            ELSE ConnClose(Connect(openConns))
            /\ result' = LoadRaised(FOLLOWS, 0)
            /\ UNCHANGED <<pc, load>>
    /\ txn' = <<>>
    /\ UNCHANGED <<FOLLOWS, TWEET, autoInc, now, seen, nposts>>

\* An exception leaves the try block: finally closes the connection, nothing
\* was committed.
LoadRaise ==
    /\ FOLLOWS' = CloseUncommitted(FOLLOWS, txn)
    /\ txn' = <<>>
    /\ openConns' = ConnClose(openConns)
    /\ pc' = "idle"
    /\ load' = NoLoad
    /\ result' = LoadRaised(load.before, Len(txn))

\* One iteration of `for line in f`; insert_fails: the INSERT raises.
LoadLine(insert_fails) ==
    /\ pc = "loading"
    /\ load.rest # <<>>
    /\ LET p == ParseLine(Head(load.rest))
       IN  /\ insert_fails => p.kind = "pair"
           /\ IF p.kind = "blank"
              THEN /\ load' = [load EXCEPT !.rest = Tail(@)]
                   /\ UNCHANGED <<FOLLOWS, txn, openConns, pc, result>>
              ELSE IF p.kind = "error" \/ insert_fails
              THEN LoadRaise
              ELSE LET ins == InsertIgnore(FOLLOWS, txn, p.row)
                   IN  /\ txn' = ins.pending
                       /\ load' = [load EXCEPT
                                     !.rest = Tail(@),
                                     !.inserted = CountInserted(@, ins.rowcount)]
                       /\ UNCHANGED <<FOLLOWS, openConns, pc, result>>
    /\ UNCHANGED <<TWEET, autoInc, now, seen, nposts>>

\* conn.commit(); return inserted; finally conn.close().
LoadCommit(commit_fails) ==
    /\ pc = "loading"
    /\ load.rest = <<>>
    /\ IF commit_fails
       THEN LoadRaise
       ELSE /\ FOLLOWS' = Commit(FOLLOWS, txn)
            /\ txn' = <<>>
            /\ openConns' = ConnClose(openConns)
            /\ pc' = "idle"
            /\ load' = NoLoad
            /\ result' = [op |-> "load_follows_csv", status |-> "returned",
                          args |-> <<load.file, load.has_header>>,
                          before |-> load.before, repeat |-> load.repeat,
                          value |-> load.inserted]
    /\ UNCHANGED <<TWEET, autoInc, now, seen, nposts>>

----------------------------------------------------------------------------
(* The environment: the store's clock, and a read of FOLLOWS by another    *)
(* session, which sees committed rows only.                                *)

Tick ==
    /\ now < MaxClock
    /\ now' = now + 1
    /\ UNCHANGED <<FOLLOWS, TWEET, autoInc, openConns, txn, pc, load, result, seen, nposts>>

OtherSessionRead ==
    /\ seen # FOLLOWS
    /\ seen' = FOLLOWS
    /\ UNCHANGED <<FOLLOWS, TWEET, autoInc, now, openConns, txn, pc, load, result, nposts>>

----------------------------------------------------------------------------

Next ==
    \/ \E u \in Authors, x \in Texts, o \in PostOutcomes, b \in BOOLEAN :
          PostTweet(u, x, o, b)
    \/ \E u \in TimelineUsers, o \in ReadOutcomes : GetHomeTimeline(u, o)
    \/ \E o \in ReadOutcomes : GetRandomFollowerId(o)
    \/ \E f \in EdgeFiles, h \in BOOLEAN, o \in LoadBeginOutcomes : LoadBegin(f, h, o)
    \/ \E b \in BOOLEAN : LoadLine(b)
    \/ \E b \in BOOLEAN : LoadCommit(b)
    \/ Tick

\* The four operations of one API instance and the store's clock, with
\* one-line follows files.
Spec == Init /\ [][Next]_vars

NextLoad ==
    \/ \E f \in Files, h \in BOOLEAN, o \in LoadBeginOutcomes : LoadBegin(f, h, o)
    \/ \E b \in BOOLEAN : LoadLine(b)
    \/ \E b \in BOOLEAN : LoadCommit(b)
    \/ \E o \in ReadOutcomes : GetRandomFollowerId(o)
    \/ OtherSessionRead

\* The operations on FOLLOWS and the reads of another session, with follows
\* files of at most MaxLines lines.
SpecLoad == InitLoad /\ [][NextLoad]_vars

----------------------------------------------------------------------------
(* Properties.                                                             *)

LoadReturned == result.op = "load_follows_csv" /\ result.status = "returned"

LoadFailed == result.op = "load_follows_csv" /\ result.status = "raised"

TimelineReturned == result.op = "get_home_timeline" /\ result.status = "returned"

RandomReturned == result.op = "get_random_follower_id" /\ result.status = "returned"

\* The lines a load of `args` runs the loop body on, and the pairs they spell.
ProcessedLines(args) == SkipHeader(args[1], args[2])

PairLines(args) ==
    {i \in 1..Len(ProcessedLines(args)) : ParseLine(ProcessedLines(args)[i]).kind = "pair"}

PairsOf(args) == {ParseLine(ProcessedLines(args)[i]).row : i \in PairLines(args)}

NoDuplicates(rows) ==
    \A i, j \in 1..Len(rows) : rows[i] = rows[j] => i = j

IsPrefix(s, t) == Len(s) <= Len(t) /\ SubSeq(t, 1, Len(s)) = s

\* C1: a load_follows_csv call that raises, at whatever line and after however
\* many inserts, leaves FOLLOWS exactly as it was before the call; while a load
\* runs FOLLOWS is unchanged, and no other session has read a row of a batch
\* that is in flight or has failed.
C1_AllOrNothing ==
    /\ pc = "loading" =>
          /\ FOLLOWS = load.before
          /\ Range(seen) \cap Range(txn) = {}
    /\ LoadFailed => FOLLOWS = result.before
    /\ Range(seen) \subseteq Range(FOLLOWS)

\* A load raised after it had inserted rows, others had been committed before,
\* and another session has read the table since.
C1_Witness ==
    /\ LoadFailed
    /\ result.discarded > 0
    /\ FOLLOWS # <<>>
    /\ seen = FOLLOWS

\* C2: FOLLOWS never holds the same (follower_id, followee_id) pair twice, and
\* a successful load of the file (and has_header) that the previous successful
\* load loaded returns 0 and leaves FOLLOWS unchanged.
C2_Idempotent ==
    /\ NoDuplicates(FOLLOWS)
    /\ LoadReturned /\ result.repeat =>
          /\ result.value = 0
          /\ FOLLOWS = result.before

\* A file with an edge in it was loaded a second time.
C2_Witness ==
    /\ LoadReturned
    /\ result.repeat
    /\ PairsOf(result.args) # {}

\* C3: the value a successful load returns is the number of rows it added to
\* FOLLOWS, which is the number of distinct pairs on its processed lines that
\* were not in FOLLOWS before the call.
C3_ReturnsRowsAdded ==
    LoadReturned =>
        /\ IsPrefix(result.before, FOLLOWS)
        /\ result.value = Len(FOLLOWS) - Len(result.before)
        /\ result.value = Cardinality(PairsOf(result.args) \ Range(result.before))
        /\ Range(FOLLOWS) = Range(result.before) \cup PairsOf(result.args)

\* A load of two lines that each spell a pair returned 1: the second line
\* repeated the first, or one of the pairs was in FOLLOWS already.
C3_Witness ==
    /\ LoadReturned
    /\ Cardinality(PairLines(result.args)) = 2
    /\ result.value = 1

Eligible(user_id) ==
    {t \in Range(TWEET) : <<user_id, t.user_id>> \in Range(FOLLOWS)}

\* C4: a home timeline holds at most 10 tweets, each a stored tweet whose author
\* the requesting user follows, with timestamps non-increasing from first to
\* last.
C4_TimelineSafe ==
    TimelineReturned =>
        /\ Len(result.value) <= 10
        /\ \A i \in 1..Len(result.value) : result.value[i] \in Eligible(result.user_id)
        /\ \A i, j \in 1..Len(result.value) :
              i < j => result.value[i].tweet_ts >= result.value[j].tweet_ts

\* A full timeline that spans two timestamps, while the store also holds a tweet
\* by an author the user does not follow.
C4_Witness ==
    /\ TimelineReturned
    /\ Len(result.value) = 10
    /\ result.value[1].tweet_ts > result.value[10].tweet_ts
    /\ Range(TWEET) \ Eligible(result.user_id) # {}

\* C5: with N the number of tweets by followees of the user, a home timeline
\* holds exactly min(10, N) distinct tweets, no eligible tweet left out is
\* strictly newer than one returned, and the timeline is empty when N = 0.
C5_TimelineComplete ==
    TimelineReturned =>
        LET elig == Eligible(result.user_id)
            got == Range(result.value)
        IN  /\ Len(result.value) = Min(10, Cardinality(elig))
            /\ Cardinality(got) = Len(result.value)
            /\ got \subseteq elig
            /\ \A o \in elig \ got : \A r \in got : o.tweet_ts <= r.tweet_ts
            /\ elig = {} => result.value = <<>>

\* More than 10 eligible tweets: one was left out, and it is older than the
\* newest one returned.
C5_Witness ==
    /\ TimelineReturned
    /\ Cardinality(Eligible(result.user_id)) > 10
    /\ \E o \in Eligible(result.user_id) \ Range(result.value) :
          o.tweet_ts < result.value[1].tweet_ts

\* C6: two get_home_timeline calls for the same user with no write to the
\* store between them return the same tweets in the same order.
C6_Reproducible ==
    [][ ( /\ TimelineReturned
          /\ result'.op = "get_home_timeline"
          /\ result'.status = "returned"
          /\ result'.user_id = result.user_id
          /\ TWEET' = TWEET
          /\ FOLLOWS' = FOLLOWS )
        => result'.value = result.value ]_vars

\* C7: a successful post_tweet appends exactly one committed TWEET row with
\* the given author and text, returns that row's tweet_id, and the tweet_id is
\* strictly greater than that of every row posted before (the tweet_ids the
\* earlier successful calls returned).
C7_PostTweet ==
    [][ (nposts' = nposts + 1 /\ result'.status = "returned") =>
          /\ Len(TWEET') = Len(TWEET) + 1
          /\ SubSeq(TWEET', 1, Len(TWEET)) = TWEET
          /\ TWEET'[Len(TWEET')].user_id = result'.user_id
          /\ TWEET'[Len(TWEET')].tweet_text = result'.tweet_text
          /\ TWEET'[Len(TWEET')].tweet_id = result'.value
          /\ \A i \in 1..Len(TWEET) : TWEET[i].tweet_id < result'.value ]_vars

\* A post returned after an earlier post had failed and consumed a tweet_id,
\* with follows loaded in between.
C7_Witness ==
    /\ result.op = "post_tweet"
    /\ result.status = "returned"
    /\ TWEET # <<>>
    /\ result.value > Len(TWEET)
    /\ FOLLOWS # <<>>

FollowerIds == {FOLLOWS[i][1] : i \in 1..Len(FOLLOWS)}

\* C8: get_random_follower_id returns None exactly when FOLLOWS is empty, and
\* otherwise the follower_id of some FOLLOWS row, within [min, max] of the
\* follower_ids.
C8_RandomFollower ==
    RandomReturned =>
        /\ result.value = None <=> FOLLOWS = <<>>
        /\ result.value.some =>
              /\ result.value.val \in FollowerIds
              /\ \E a, b \in FollowerIds : a <= result.value.val /\ result.value.val <= b

\* A follower_id was returned while FOLLOWS also holds an id that only occurs
\* as a followee.
C8_Witness ==
    /\ RandomReturned
    /\ result.value.some
    /\ \E i \in 1..Len(FOLLOWS) : FOLLOWS[i][2] \notin FollowerIds

\* C9: on every FOLLOWS state the values get_random_follower_id can return are
\* the values range-sample-and-seek can return, and each value returned is one
\* of them.
C9_SameOutcomes ==
    /\ RandomFollowerOutcomes(FOLLOWS) = RangeSampleSeekOutcomes(FOLLOWS)
    /\ RandomReturned => result.value \in RangeSampleSeekOutcomes(FOLLOWS)

\* A value was returned from a table whose follower_ids have a gap, so that a
\* draw inside the gap seeks forward.
C9_Witness ==
    /\ RandomReturned
    /\ result.value.some
    /\ \E a, b \in FollowerIds : a + 1 < b /\ \A c \in FollowerIds : ~(a < c /\ c < b)

\* C10: the API instance never holds more than one open connection; it holds
\* exactly one inside a call, and none, with nothing uncommitted, once the call
\* has returned or raised.
C10_ConnectionDiscipline ==
    /\ openConns <= 1
    /\ pc = "loading" => openConns = 1
    /\ pc = "idle" => openConns = 0 /\ txn = <<>>

\* A load raised with uncommitted rows, and the instance is idle again.
C10_Witness ==
    /\ pc = "idle"
    /\ LoadFailed
    /\ result.discarded > 0

====
